---- MODULE Spec2Model ----
(***************************************************************************)
(* A model of the CodeBuddy backend: the document store (groups, group     *)
(* memberships, questions, feedback), the request handlers of the question *)
(* and group controllers, the authentication middleware and the rate       *)
(* limiter.  A request handled from start to end is one action; the        *)
(* handlers whose check-then-write matters are also given as two steps.    *)
(***************************************************************************)
EXTENDS Integers, Sequences, FiniteSets, TLC

(***************************************************************************)
(* Bounds of the model.                                                    *)
(***************************************************************************)
MaxGroups == 1
MaxQuestions == 2
MaxSolutions == 1
MaxViews == 1

Users == {1, 2}

(***************************************************************************)
(* Strings are sequences of characters, so that trim() and the             *)
(* case-insensitive match are computed.  A field the request does not      *)
(* carry is Undefined.                                                     *)
(***************************************************************************)
Undefined == <<"undefined">>

\* JavaScript's !x for a string field: undefined and "" are falsy.
Falsy(s) == s = Undefined \/ s = <<>>

RECURSIVE TrimStart(_)
TrimStart(s) ==
  IF s # <<>> /\ Head(s) = " " THEN TrimStart(Tail(s)) ELSE s

RECURSIVE TrimEnd(_)
TrimEnd(s) ==
  IF s # <<>> /\ s[Len(s)] = " " THEN TrimEnd(SubSeq(s, 1, Len(s) - 1)) ELSE s

\* String.prototype.trim
Trim(s) == TrimEnd(TrimStart(s))

LowerChar(c) == IF c = "A" THEN "a" ELSE IF c = "B" THEN "b" ELSE c

Lower(s) == [i \in 1..Len(s) |-> LowerChar(s[i])]

\* { $regex: q, $options: 'i' } for a q without metacharacters: q occurs in s,
\* letter case ignored.
RegexI(q, s) ==
  \E i \in 0..(Len(s) - Len(q)) :
     Lower(SubSeq(s, i + 1, i + Len(q))) = Lower(q)

(***************************************************************************)
(* The document store.                                                     *)
(***************************************************************************)
VARIABLES
  groups,       \* Group collection: sequence of documents, _id = position
  members,      \* GroupMember collection: [<<userId, groupId>> -> document]
  questions,    \* Question collection: sequence of documents, _id = position
  feedbacks,    \* Feedback collection: sequence of documents
  last,         \* the response to the request handled last
  inflight,     \* createQuestion requests between their checks and their save
  now,          \* the clock, in milliseconds
  pwChangedAt,  \* User.passwordChangedAt per user, in milliseconds (NotSet: never set)
  userActive,   \* User.isActive per user
  tokens,       \* the tokens issued: [userId, iat (seconds), issuedAt (milliseconds)]
  hits,         \* apiLimiter's counter of the client in the current window
  sent          \* the requests the client has sent in the current window

vars == <<groups, members, questions, feedbacks, last, inflight,
          now, pwChangedAt, userActive, tokens, hits, sent>>

storeVars == <<groups, members, questions, feedbacks>>
authVars == <<now, pwChangedAt, userActive, tokens>>
rateVars == <<hits, sent>>

NoMember == [role |-> "none", status |-> "none", bannedBy |-> 0, joinedAt |-> 0]

UndefS == "undefined"

\* A request body that carries no field; the bodies of the requests are this
\* record with the fields they carry set.
NoBody == [title |-> Undefined, sourceUrl |-> Undefined, difficulty |-> UndefS,
           category |-> Undefined, platform |-> UndefS, groupId |-> 0,
           status |-> UndefS, difficultyRating |-> UndefS, timeToSolve |-> <<>>,
           notes |-> Undefined, q |-> Undefined, questionId |-> 0,
           type |-> UndefS, votedDifficulty |-> UndefS, rating |-> 0]

NoResponse == [op |-> "none", user |-> 0, code |-> 0, msg |-> "", data |-> {}]

\* res.status(code).json({ message, ... }): the handler, the requester, the
\* status, the message, and the questions whose content the answer carries.
Reply(op, u, code, msg, data) ==
  [op |-> op, user |-> u, code |-> code, msg |-> msg, data |-> data]

GroupIds == 1..Len(groups)
QuestionIds == 1..Len(questions)

\* The lookup without its status filter.
MembershipAnyStatus(u, g) ==
  IF g \in GroupIds THEN members[<<u, g>>] ELSE NoMember

\* GroupMember.findOne({ userId, groupId, status: 'active' })
ActiveMembership(u, g) ==
  IF g \in GroupIds /\ members[<<u, g>>].status = "active"
  THEN members[<<u, g>>] ELSE NoMember

\* GroupMember.findOne({ userId, groupId })
AnyMembership(u, g) ==
  IF g \in GroupIds THEN members[<<u, g>>] ELSE NoMember

NotSet == -1

InitStore ==
  /\ groups = <<>>
  /\ members = [p \in Users \X (1..MaxGroups) |-> NoMember]
  /\ questions = <<>>
  /\ feedbacks = <<>>
  /\ last = NoResponse
  /\ inflight = {}

InitAuth ==
  /\ now = 0
  /\ pwChangedAt = [u \in Users |-> NotSet]
  /\ userActive = [u \in Users |-> TRUE]
  /\ tokens = {}

InitRate ==
  /\ hits = 0
  /\ sent = 0

Init == InitStore /\ InitAuth /\ InitRate

(***************************************************************************)
(* Group controller.                                                       *)
(***************************************************************************)
\* Group.countDocuments({ adminId, isActive: true })
AdminGroupCount(u) ==
  Cardinality({g \in GroupIds : groups[g].adminId = u /\ groups[g].isActive})

MaxAdminGroups == 10

\* The name of the groups the requests create, and the milliseconds of an hour.
GroupName == <<"g", "r", "p">>
MsPerHour == 3600000

\* new Group({...}) of createGroup, with the schema's defaults; the pre-save
\* hook gives it the invite code.
NewGroup(u, isPrivate, code) ==
  [isPrivate |-> isPrivate, adminId |-> u, isActive |-> TRUE,
   inviteCode |-> code, inviteCodeExpiry |-> NotSet, name |-> GroupName,
   allowMemberInvites |-> TRUE]

\* GroupMember.create({ userId: adminId, groupId, role: 'admin', status: 'active' }),
\* joinedAt by the schema's default, the time of the creation.
AdminMember ==
  [role |-> "admin", status |-> "active", bannedBy |-> 0, joinedAt |-> now]

CreateGroup(u, isPrivate) ==
  /\ Len(groups) < MaxGroups
  /\ IF AdminGroupCount(u) >= MaxAdminGroups
     THEN /\ last' = Reply("createGroup", u, 400,
                           "You can only create up to 10 groups", {})
          /\ UNCHANGED <<groups, members>>
     ELSE LET g == Len(groups) + 1 IN
          /\ groups' = Append(groups, NewGroup(u, isPrivate, g))
          /\ members' = [members EXCEPT ![<<u, g>>] = AdminMember]
          /\ last' = Reply("createGroup", u, 201,
                           "Group created successfully", {})
  /\ UNCHANGED <<questions, feedbacks, inflight, authVars, rateVars>>

\* The groups a store of the cap's specification can hold.
MaxCapGroups == 11

\* createGroup up to its count of the requester's groups: the request is
\* refused, or now awaits its save.
CreateGroupCheck(u, isPrivate) ==
  /\ IF AdminGroupCount(u) >= MaxAdminGroups
     THEN /\ last' = Reply("createGroup", u, 400,
                           "You can only create up to 10 groups", {})
          /\ UNCHANGED inflight
     ELSE /\ inflight' = inflight \cup {[user |-> u, isPrivate |-> isPrivate]}
          /\ last' = last
  /\ UNCHANGED <<storeVars, authVars, rateVars>>

\* createGroup from its save on.
CreateGroupSave(r) ==
  /\ Len(groups) < MaxCapGroups
  /\ LET g == Len(groups) + 1 IN
     /\ groups' = Append(groups, NewGroup(r.user, r.isPrivate, g))
     /\ members' = [members EXCEPT ![<<r.user, g>>] = AdminMember]
  /\ inflight' = inflight \ {r}
  /\ last' = Reply("createGroup", r.user, 201, "Group created successfully", {})
  /\ UNCHANGED <<questions, feedbacks, authVars, rateVars>>

\* Group.findOne({ inviteCode, isActive: true })
GroupByInviteCode(code) ==
  {g \in GroupIds : groups[g].inviteCode = code /\ groups[g].isActive}

JoinGroup(u, code) ==
  /\ IF GroupByInviteCode(code) = {}
     THEN /\ last' = Reply("joinGroup", u, 404,
                           "Invalid invite code or group not found", {})
          /\ UNCHANGED members
     ELSE LET g == CHOOSE x \in GroupByInviteCode(code) : TRUE
              m == AnyMembership(u, g) IN
          IF m.status = "active"
          THEN /\ last' = Reply("joinGroup", u, 400,
                                "You are already a member of this group", {})
               /\ UNCHANGED members
          ELSE /\ members' = [members EXCEPT ![<<u, g>>] =
                                IF m.status = "none"
                                THEN [role |-> "member", status |-> "active",
                                      bannedBy |-> 0, joinedAt |-> now]
                                ELSE [m EXCEPT !.status = "active",
                                               !.joinedAt = now]]
               /\ last' = Reply("joinGroup", u, 200,
                                "Successfully joined the group", {})
  /\ UNCHANGED <<groups, questions, feedbacks, inflight, authVars, rateVars>>

\* The count forgotten: the admin always seems alone.
NoOtherMembers(u, g) == 0

\* GroupMember.countDocuments({ groupId, status: 'active', userId: { $ne: userId } })
OtherActiveMembers(u, g) ==
  Cardinality({v \in Users : v # u /\ members[<<v, g>>].status = "active"})

LeaveGroup(u, g) ==
  /\ IF g \notin GroupIds
     THEN /\ last' = Reply("leaveGroup", u, 404, "Group not found", {})
          /\ UNCHANGED <<groups, members>>
     ELSE LET m == AnyMembership(u, g) IN
          IF m.status = "none"
          THEN /\ last' = Reply("leaveGroup", u, 400,
                                "You are not a member of this group", {})
               /\ UNCHANGED <<groups, members>>
          ELSE IF m.role = "admin" /\ OtherActiveMembers(u, g) > 0
          THEN /\ last' = Reply("leaveGroup", u, 400,
                  "You must transfer admin role to another member before leaving",
                  {})
               /\ UNCHANGED <<groups, members>>
          ELSE /\ groups' = [groups EXCEPT
                    ![g].isActive = IF m.role = "admin" THEN FALSE ELSE @]
               /\ members' = [members EXCEPT ![<<u, g>>].status = "left"]
               /\ last' = Reply("leaveGroup", u, 200,
                                "Successfully left the group", {})
  /\ UNCHANGED <<questions, feedbacks, inflight, authVars, rateVars>>

\* removeMember without its test of the target's role.
RemoveMemberAnyTarget(u, g, target) ==
  /\ IF AnyMembership(u, g).role # "admin"
     THEN /\ last' = Reply("removeMember", u, 403,
                           "Only group admins can remove members", {})
          /\ UNCHANGED members
     ELSE LET m == AnyMembership(target, g) IN
          IF m.status = "none"
          THEN /\ last' = Reply("removeMember", u, 404, "Member not found",
                                {})
               /\ UNCHANGED members
          ELSE /\ members' = [members EXCEPT ![<<target, g>>] =
                                [m EXCEPT !.status = "banned", !.bannedBy = u]]
               /\ last' = Reply("removeMember", u, 200,
                                "Member removed successfully", {})
  /\ UNCHANGED <<groups, questions, feedbacks, inflight, authVars, rateVars>>

RemoveMember(u, g, target) ==
  /\ IF AnyMembership(u, g).role # "admin"
     THEN /\ last' = Reply("removeMember", u, 403,
                           "Only group admins can remove members", {})
          /\ UNCHANGED members
     ELSE LET m == AnyMembership(target, g) IN
          IF m.status = "none"
          THEN /\ last' = Reply("removeMember", u, 404, "Member not found",
                                {})
               /\ UNCHANGED members
          ELSE IF m.role = "admin"
          THEN /\ last' = Reply("removeMember", u, 400,
                                "Cannot remove group admin", {})
               /\ UNCHANGED members
          ELSE /\ members' = [members EXCEPT ![<<target, g>>] =
                                [m EXCEPT !.status = "banned", !.bannedBy = u]]
               /\ last' = Reply("removeMember", u, 200,
                                "Member removed successfully", {})
  /\ UNCHANGED <<groups, questions, feedbacks, inflight, authVars, rateVars>>

\* !group || !group.isActive
ActiveGroup(g) == g \in GroupIds /\ groups[g].isActive

GetGroupDetails(u, g) ==
  /\ last' = IF ~ActiveGroup(g)
             THEN Reply("getGroupDetails", u, 404, "Group not found", {})
             ELSE IF AnyMembership(u, g) = NoMember /\ groups[g].isPrivate
             THEN Reply("getGroupDetails", u, 403, "This is a private group", {})
             ELSE Reply("getGroupDetails", u, 200, "", {})
  /\ UNCHANGED <<storeVars, inflight, authVars, rateVars>>

\* The validators of the Group schema that a request can fail: the name.
MinNameLen == 3
ValidGroup(doc) == Len(doc.name) >= MinNameLen

\* The fields of updateGroup's body that the model keeps, as the handler
\* sets them: the name, and the settings when the requester is the admin
\* (allow: "undefined" for a body without settings).
UpdatedGroup(doc, m, name, allow) ==
  [doc EXCEPT !.name = IF Falsy(name) THEN @ ELSE Trim(name),
              !.allowMemberInvites =
                 IF allow # UndefS /\ m.role = "admin" THEN allow = "true" ELSE @]

UpdateGroup(u, g, name, allow) ==
  /\ IF g \notin GroupIds
     THEN /\ last' = Reply("updateGroup", u, 404, "Group not found", {})
          /\ UNCHANGED groups
     ELSE LET m == AnyMembership(u, g)
              doc == UpdatedGroup(groups[g], m, name, allow) IN
          IF m = NoMember \/ (m.role # "admin" /\ m.role # "moderator")
          THEN /\ last' = Reply("updateGroup", u, 403,
                    "Only admins and moderators can update group details", {})
               /\ UNCHANGED groups
          ELSE IF ~ValidGroup(doc)
          THEN /\ last' = Reply("updateGroup", u, 500,
                                "Failed to update group", {})
               /\ UNCHANGED groups
          ELSE /\ groups' = [groups EXCEPT ![g] = doc]
               /\ last' = Reply("updateGroup", u, 200,
                                "Group updated successfully", {})
  /\ UNCHANGED <<members, questions, feedbacks, inflight, authVars, rateVars>>

\* The test of generateInviteCode that refuses the requester.
InviteDenied(m, doc) ==
  \/ m = NoMember
  \/ (m.role # "admin" /\ (m.role # "member" \/ ~doc.allowMemberInvites))

\* The unique index on inviteCode: another group holds the code.
CodeTaken(g, code) == \E h \in GroupIds : h # g /\ groups[h].inviteCode = code

\* new Date(Date.now() + expiryHours * 60 * 60 * 1000), or undefined for
\* a body without expiryHours (or with 0).
ExpiryOf(hours) == IF hours = 0 THEN NotSet ELSE now + hours * MsPerHour

\* generateInviteCode; code is what crypto.randomBytes gives.
GenerateInviteCode(u, g, hours, code) ==
  /\ IF g \notin GroupIds
     THEN /\ last' = Reply("generateInviteCode", u, 404, "Group not found", {})
          /\ UNCHANGED groups
     ELSE IF InviteDenied(AnyMembership(u, g), groups[g])
     THEN /\ last' = Reply("generateInviteCode", u, 403,
                 "You do not have permission to generate invite codes", {})
          /\ UNCHANGED groups
     ELSE IF CodeTaken(g, code)
     THEN /\ last' = Reply("generateInviteCode", u, 500,
                           "Failed to generate invite code", {})
          /\ UNCHANGED groups
     ELSE /\ groups' = [groups EXCEPT ![g].inviteCode = code,
                                      ![g].inviteCodeExpiry = ExpiryOf(hours)]
          /\ last' = Reply("generateInviteCode", u, 200,
                           "New invite code generated", {})
  /\ UNCHANGED <<members, questions, feedbacks, inflight, authVars, rateVars>>

\* An hour passes.
MaxHours == 2
HourPasses ==
  /\ now < MaxHours * MsPerHour
  /\ now' = now + MsPerHour
  /\ last' = Reply("tick", 0, 0, "", {})
  /\ UNCHANGED <<storeVars, inflight, pwChangedAt, userActive, tokens, rateVars>>

(***************************************************************************)
(* Question model: the schema's validators, run by save().                 *)
(***************************************************************************)
\* JavaScript's !x for an enumerated string field.
FalsyS(x) == x = UndefS \/ x = ""

Difficulties == {"Easy", "Medium", "Hard"}
Platforms == {"LeetCode", "HackerRank", "CodeForces", "GeeksforGeeks",
              "InterviewBit", "Other"}
ResponseStatuses == {"solved", "attempted", "stuck"}

\* required: true on a string path: the value is there and not empty.
Required(s) == s # Undefined /\ s # <<>>

ValidResponse(r) ==
  /\ r.status \in ResponseStatuses
  /\ r.difficultyRating \in Difficulties
  /\ r.timeToSolve = <<>> \/ r.timeToSolve[1] >= 0

ValidQuestion(doc) ==
  /\ Required(doc.title)
  /\ Required(doc.sourceUrl)
  /\ doc.difficulty \in Difficulties
  /\ Required(doc.category)
  /\ doc.platform \in Platforms
  /\ \A i \in 1..Len(doc.memberResponses) : ValidResponse(doc.memberResponses[i])

\* A string path declared trim: true: its setter trims the value that is
\* stored and the value a query filter carries.
TrimSetter(s) == IF s = Undefined THEN s ELSE Trim(s)

(***************************************************************************)
(* Question controller.                                                    *)
(***************************************************************************)
\* Question.findOne({ sourceUrl, groupId, status: 'active' })
ExistingQuestion(sourceUrl, g) ==
  \E i \in QuestionIds :
     /\ questions[i].sourceUrl = TrimSetter(sourceUrl)
     /\ questions[i].groupId = g
     /\ questions[i].status = "active"

\* new Question({...}) of createQuestion
NewQuestion(u, b) ==
  [title |-> Trim(b.title), sourceUrl |-> Trim(b.sourceUrl),
   difficulty |-> b.difficulty, category |-> Trim(b.category),
   platform |-> b.platform, groupId |-> b.groupId, postedBy |-> u,
   status |-> "active", views |-> 0, memberResponses |-> <<>>,
   solutions |-> <<>>]

Ok == [code |-> 0, msg |-> ""]

\* The checks of createQuestion before the document is built: the refusal, or Ok.
CreateQuestionChecks(u, b) ==
  IF Falsy(b.title) \/ Falsy(b.sourceUrl) \/ FalsyS(b.difficulty)
       \/ Falsy(b.category) \/ b.groupId = 0
  THEN [code |-> 400,
        msg |-> "Title, source URL, difficulty, category, and group ID are required"]
  ELSE IF b.groupId \notin GroupIds
  THEN [code |-> 404, msg |-> "Group not found"]
  ELSE IF ActiveMembership(u, b.groupId) = NoMember
  THEN [code |-> 403, msg |-> "You must be a member of this group to add questions"]
  ELSE IF ExistingQuestion(b.sourceUrl, b.groupId)
  THEN [code |-> 400, msg |-> "This question already exists in the group"]
  ELSE Ok

\* question.save() and the answer of createQuestion; a validation error is
\* caught and answered 500.
SaveNewQuestion(u, b) ==
  IF ValidQuestion(NewQuestion(u, b))
  THEN /\ Len(questions) < MaxQuestions
       /\ questions' = Append(questions, NewQuestion(u, b))
       /\ last' = Reply("createQuestion", u, 201,
                        "Question created successfully", {Len(questions) + 1})
  ELSE /\ questions' = questions
       /\ last' = Reply("createQuestion", u, 500,
                        "Failed to create question", {})

CreateQuestion(u, b) ==
  /\ LET c == CreateQuestionChecks(u, b) IN
     IF c # Ok
     THEN /\ last' = Reply("createQuestion", u, c.code, c.msg, {})
          /\ questions' = questions
     ELSE SaveNewQuestion(u, b)
  /\ UNCHANGED <<groups, members, feedbacks, inflight, authVars, rateVars>>

\* createQuestion up to its last check: the request now awaits its save.
CreateQuestionCheck(u, b) ==
  /\ LET c == CreateQuestionChecks(u, b) IN
     IF c # Ok
     THEN /\ last' = Reply("createQuestion", u, c.code, c.msg, {})
          /\ inflight' = inflight
     ELSE /\ inflight' = inflight \cup {[user |-> u, body |-> b]}
          /\ last' = last
  /\ UNCHANGED <<storeVars, authVars, rateVars>>

\* createQuestion from its save on.
CreateQuestionSave(r) ==
  /\ r \in inflight
  /\ inflight' = inflight \ {r}
  /\ SaveNewQuestion(r.user, r.body)
  /\ UNCHANGED <<groups, members, feedbacks, authVars, rateVars>>

\* Question.findById(id) finds a document.
Exists(id) == id \in QuestionIds

\* The test without its status part.
ActiveQuestionAnyStatus(id) == Exists(id)

\* !(!question || question.status !== 'active')
ActiveQuestion(id) == Exists(id) /\ questions[id].status = "active"

\* !membership && group.isPrivate
AccessDenied(u, g) ==
  ActiveMembership(u, g) = NoMember /\ groups[g].isPrivate

\* Question.find({ groupId, status: 'active' })
ActiveQuestionsOf(g) ==
  {i \in QuestionIds : questions[i].groupId = g /\ questions[i].status = "active"}

GetQuestionsByGroup(u, g) ==
  /\ last' = IF g \notin GroupIds
             THEN Reply("getQuestionsByGroup", u, 404, "Group not found", {})
             ELSE IF AccessDenied(u, g)
             THEN Reply("getQuestionsByGroup", u, 403,
                        "Access denied to private group", {})
             ELSE Reply("getQuestionsByGroup", u, 200, "", ActiveQuestionsOf(g))
  /\ UNCHANGED <<storeVars, inflight, authVars, rateVars>>

GetQuestionById(u, id) ==
  /\ IF ~ActiveQuestion(id)
     THEN /\ last' = Reply("getQuestionById", u, 404, "Question not found", {})
          /\ questions' = questions
     ELSE IF AccessDenied(u, questions[id].groupId)
     THEN /\ last' = Reply("getQuestionById", u, 403, "Access denied", {})
          /\ questions' = questions
     ELSE /\ last' = Reply("getQuestionById", u, 200, "", {id})
          /\ IF questions[id].postedBy # u
             THEN /\ questions[id].views < MaxViews
                  /\ questions' = [questions EXCEPT ![id].views = @ + 1]
             ELSE questions' = questions
  /\ UNCHANGED <<groups, members, feedbacks, inflight, authVars, rateVars>>

\* The test with the role forgotten: any active member passes.
PermissionDeniedAnyMember(u, id) ==
  /\ questions[id].postedBy # u
  /\ ActiveMembership(u, questions[id].groupId) = NoMember

\* question.postedBy.toString() !== userId && membership?.role !== 'admin'
PermissionDenied(u, id) ==
  /\ questions[id].postedBy # u
  /\ ActiveMembership(u, questions[id].groupId).role # "admin"

\* The allowed fields the body carries, as findByIdAndUpdate sets them (the
\* title through its trim setter).
ApplyUpdates(doc, upd) ==
  [doc EXCEPT !.title = IF upd.title = Undefined THEN @ ELSE TrimSetter(upd.title),
              !.difficulty = IF upd.difficulty = UndefS THEN @ ELSE upd.difficulty]

UpdateQuestion(u, id, upd) ==
  /\ IF ~ActiveQuestion(id)
     THEN /\ last' = Reply("updateQuestion", u, 404, "Question not found", {})
          /\ questions' = questions
     ELSE IF PermissionDenied(u, id)
     THEN /\ last' = Reply("updateQuestion", u, 403, "Permission denied", {})
          /\ questions' = questions
     ELSE IF ~ValidQuestion(ApplyUpdates(questions[id], upd))
     THEN /\ last' = Reply("updateQuestion", u, 500,
                           "Failed to update question", {})
          /\ questions' = questions
     ELSE /\ last' = Reply("updateQuestion", u, 200,
                           "Question updated successfully", {id})
          /\ questions' = [questions EXCEPT ![id] = ApplyUpdates(@, upd)]
  /\ UNCHANGED <<groups, members, feedbacks, inflight, authVars, rateVars>>

DeleteQuestion(u, id) ==
  /\ IF ~ActiveQuestion(id)
     THEN /\ last' = Reply("deleteQuestion", u, 404, "Question not found", {})
          /\ questions' = questions
     ELSE IF PermissionDenied(u, id)
     THEN /\ last' = Reply("deleteQuestion", u, 403, "Permission denied", {})
          /\ questions' = questions
     ELSE /\ last' = Reply("deleteQuestion", u, 200,
                           "Question deleted successfully", {})
          /\ questions' = [questions EXCEPT ![id].status = "deleted"]
  /\ UNCHANGED <<groups, members, feedbacks, inflight, authVars, rateVars>>

AddSolution(u, id) ==
  /\ IF ~Exists(id)
     THEN /\ last' = Reply("addSolution", u, 404, "Question not found", {})
          /\ questions' = questions
     ELSE /\ Len(questions[id].solutions) < MaxSolutions
          /\ questions' = [questions EXCEPT ![id].solutions = Append(@, u)]
          /\ last' = Reply("addSolution", u, 201, "Solution added successfully",
                           {id})
  /\ UNCHANGED <<groups, members, feedbacks, inflight, authVars, rateVars>>

GetSolutions(u, id) ==
  /\ last' = IF ~Exists(id)
             THEN Reply("getSolutions", u, 404, "Question not found", {})
             ELSE Reply("getSolutions", u, 200, "", {id})
  /\ UNCHANGED <<storeVars, inflight, authVars, rateVars>>

\* The filter of searchQuestions: status 'active', the title matching q, and
\* the group when the query names one (0: it names none).
SearchResults(q, g) ==
  {i \in QuestionIds :
     /\ questions[i].status = "active"
     /\ RegexI(q, questions[i].title)
     /\ g = 0 \/ questions[i].groupId = g}

MinQueryLen == 2

SearchQuestions(u, q, g) ==
  /\ last' = IF Falsy(q) \/ Len(Trim(q)) < MinQueryLen
             THEN Reply("searchQuestions", u, 400,
                        "Search query must be at least 2 characters", {})
             ELSE Reply("searchQuestions", u, 200, "", SearchResults(q, g))
  /\ UNCHANGED <<storeVars, inflight, authVars, rateVars>>

\* timeToSolve || null: no time, and the time 0, are stored as null (<<>>).
OrNull(t) == IF t = <<>> \/ t[1] = 0 THEN <<>> ELSE t

\* notes?.trim() || ''
NotesOrEmpty(n) == IF n = Undefined THEN <<>> ELSE Trim(n)

\* responseData of submitMemberResponse
ResponseData(u, b) ==
  [userId |-> u, status |-> b.status, difficultyRating |-> b.difficultyRating,
   timeToSolve |-> OrNull(b.timeToSolve), notes |-> NotesOrEmpty(b.notes)]

\* question.memberResponses.findIndex(r => r.userId.toString() === userId):
\* the first position holding a response of u, 0 for none (-1 in the code).
ResponseIndex(rs, u) ==
  IF \E i \in 1..Len(rs) : rs[i].userId = u
  THEN CHOOSE i \in 1..Len(rs) :
         rs[i].userId = u /\ \A j \in 1..(i - 1) : rs[j].userId # u
  ELSE 0

\* The response array after the replacement or the push.
WithResponse(rs, u, b) ==
  IF ResponseIndex(rs, u) # 0
  THEN [rs EXCEPT ![ResponseIndex(rs, u)] = ResponseData(u, b)]
  ELSE Append(rs, ResponseData(u, b))

SubmitMemberResponse(u, id, b) ==
  /\ IF FalsyS(b.status) \/ FalsyS(b.difficultyRating)
     THEN /\ last' = Reply("submitMemberResponse", u, 400,
                           "Status and difficulty rating are required", {})
          /\ questions' = questions
     ELSE IF ~ActiveQuestion(id)
     THEN /\ last' = Reply("submitMemberResponse", u, 404,
                           "Question not found", {})
          /\ questions' = questions
     ELSE IF ActiveMembership(u, questions[id].groupId) = NoMember
     THEN /\ last' = Reply("submitMemberResponse", u, 403,
                "You must be a member of this group to submit responses", {})
          /\ questions' = questions
     ELSE LET rs == WithResponse(questions[id].memberResponses, u, b) IN
          IF ~ValidQuestion([questions[id] EXCEPT !.memberResponses = rs])
          THEN /\ last' = Reply("submitMemberResponse", u, 500,
                                "Failed to submit response", {})
               /\ questions' = questions
          ELSE /\ questions' = [questions EXCEPT ![id].memberResponses = rs]
               /\ last' = Reply("submitMemberResponse", u, 200,
                     IF ResponseIndex(questions[id].memberResponses, u) # 0
                     THEN "Response updated successfully"
                     ELSE "Response submitted successfully", {id})
  /\ UNCHANGED <<groups, members, feedbacks, inflight, authVars, rateVars>>

GetUserQuestionResponse(u, id) ==
  /\ last' = IF ~Exists(id)
             THEN Reply("getUserQuestionResponse", u, 404,
                        "Question not found", {})
             ELSE Reply("getUserQuestionResponse", u, 200, "", {id})
  /\ UNCHANGED <<storeVars, inflight, authVars, rateVars>>

GetQuestionMemberResponses(u, id) ==
  /\ last' = IF ~Exists(id)
             THEN Reply("getQuestionMemberResponses", u, 404,
                        "Question not found", {})
             ELSE IF ActiveMembership(u, questions[id].groupId) = NoMember
             THEN Reply("getQuestionMemberResponses", u, 403,
                        "You must be a member of this group to view responses",
                        {})
             ELSE Reply("getQuestionMemberResponses", u, 200, "", {id})
  /\ UNCHANGED <<storeVars, inflight, authVars, rateVars>>

(***************************************************************************)
(* Group controller: getGroupMembers and the statistics it computes from   *)
(* the questions' response arrays.                                         *)
(***************************************************************************)
\* GroupMember.find({ groupId, status: 'active' })
ActiveMembersOf(g) ==
  {p[1] : p \in {q \in DOMAIN members :
                   q[2] = g /\ members[q].status = "active"}}

\* The lists that hold each element of S once.
RECURSIVE Perms(_)
Perms(S) ==
  IF S = {} THEN {<<>>}
  ELSE UNION {{<<x>> \o p : p \in Perms(S \ {x})} : x \in S}

\* .sort({ joinedAt: 1 }): the lists the query can answer, members who joined
\* in the same millisecond in either order.
MembersByJoinedAt(g) ==
  {ms \in Perms(ActiveMembersOf(g)) :
     \A i, j \in 1..Len(ms) :
        i < j => members[<<ms[i], g>>].joinedAt <= members[<<ms[j], g>>].joinedAt}

\* questionsWithResponses:
\* Question.find({ groupId, status: 'active', 'memberResponses.userId': member })
AnsweredBy(v, g) ==
  {id \in QuestionIds :
     /\ questions[id].groupId = g
     /\ questions[id].status = "active"
     /\ ResponseIndex(questions[id].memberResponses, v) # 0}

\* q.memberResponses.some(r => r.userId === member && r.status === 'solved')
SolvedBy(v, id) ==
  \E i \in 1..Len(questions[id].memberResponses) :
     /\ questions[id].memberResponses[i].userId = v
     /\ questions[id].memberResponses[i].status = "solved"

\* solvedCount, the member's problemsSolved
SolvedCount(v, g) == Cardinality({id \in AnsweredBy(v, g) : SolvedBy(v, id)})

\* .sort({ createdAt: -1 }): the questions of S, the newest first (a
\* question's id is its place in the order of creation).
RECURSIVE NewestFirst(_)
NewestFirst(S) ==
  IF S = {} THEN <<>>
  ELSE LET id == CHOOSE x \in S : \A y \in S : y <= x IN
       <<id>> \o NewestFirst(S \ {id})

\* .limit(20)
StreakLimit == 20

\* recentQuestions
RecentQuestions(v, g) ==
  LET qs == NewestFirst(AnsweredBy(v, g)) IN
  SubSeq(qs, 1, IF Len(qs) < StreakLimit THEN Len(qs) ELSE StreakLimit)

\* response && response.status === 'solved', the response being
\* question.memberResponses.find(r => r.userId === member)
FirstIsSolved(v, id) ==
  LET rs == questions[id].memberResponses IN
  ResponseIndex(rs, v) # 0 /\ rs[ResponseIndex(rs, v)].status = "solved"

\* The loop over recentQuestions: it counts up to the first question whose
\* response is not 'solved'.
RECURSIVE StreakOf(_, _)
StreakOf(v, qs) ==
  IF qs = <<>> THEN 0
  ELSE IF FirstIsSolved(v, Head(qs)) THEN 1 + StreakOf(v, Tail(qs))
  ELSE 0

\* The loop without its break: every solved question of the recent ones counts.
SolvedAmongRecent(v, g) ==
  Cardinality({i \in 1..Len(RecentQuestions(v, g)) :
                 FirstIsSolved(v, RecentQuestions(v, g)[i])})

\* currentStreak
CurrentStreak(v, g) == StreakOf(v, RecentQuestions(v, g))

\* The ranks without the sort: the members in the order of the query.
JoinOrder(ms, g) == ms

\* [...membersWithStats].sort((a, b) => b.stats.problemsSolved -
\* a.stats.problemsSolved): Array.prototype.sort is stable, so each member
\* goes behind those of the list before it who solved as many or more.
RECURSIVE SortedMembers(_, _)
SortedMembers(ms, g) ==
  IF ms = <<>> THEN <<>>
  ELSE LET s == SortedMembers(SubSeq(ms, 1, Len(ms) - 1), g)
           x == ms[Len(ms)]
           k == Cardinality({i \in 1..Len(s) :
                               SolvedCount(s[i], g) >= SolvedCount(x, g)}) IN
       SubSeq(s, 1, k) \o <<x>> \o SubSeq(s, k + 1, Len(s))

\* sortedMembers.forEach((member, index) => ... stats.rank = index + 1), and
\* the stats of the answer that the model keeps.
MemberStats(ms, g) ==
  LET sorted == SortedMembers(ms, g) IN
  {[groupId |-> g, userId |-> sorted[i], rank |-> i,
    problemsSolved |-> SolvedCount(sorted[i], g),
    currentStreak |-> CurrentStreak(sorted[i], g)] : i \in 1..Len(sorted)}

\* ms: the members as GroupMember.find answers them.
GetGroupMembers(u, g, ms) ==
  /\ last' = IF g \notin GroupIds
             THEN Reply("getGroupMembers", u, 404, "Group not found", {})
             ELSE IF ActiveMembership(u, g) = NoMember /\ groups[g].isPrivate
             THEN Reply("getGroupMembers", u, 403, "Access denied", {})
             ELSE Reply("getGroupMembers", u, 200, "", MemberStats(ms, g))
  /\ UNCHANGED <<storeVars, inflight, authVars, rateVars>>

(***************************************************************************)
(* Feedback controller.                                                    *)
(***************************************************************************)
FeedbackTypes == {"difficulty_rating", "question_review", "solution_review", "general"}
ReviewTypes == {"question_review", "solution_review"}

MinRating == 1
MaxRating == 5

\* doc.name is truthy: the document has the property, and it is true.  A
\* property the schema does not declare is undefined.
Truthy(doc, name) == name \in DOMAIN doc /\ doc[name] = TRUE

\* Feedback.findOne({ userId, questionId, type, status: { $ne: 'deleted' } })
ExistingFeedback(u, qid, type) ==
  \E i \in 1..Len(feedbacks) :
     /\ feedbacks[i].userId = u
     /\ feedbacks[i].questionId = qid
     /\ feedbacks[i].type = type
     /\ feedbacks[i].status # "deleted"

\* The unique index { userId, questionId, type }: a document with the key exists.
IndexHasKey(u, qid, type) ==
  \E i \in 1..Len(feedbacks) :
     /\ feedbacks[i].userId = u
     /\ feedbacks[i].questionId = qid
     /\ feedbacks[i].type = type

\* new Feedback(feedbackData)
NewFeedback(u, b) ==
  [userId |-> u, questionId |-> b.questionId, type |-> b.type,
   votedDifficulty |-> IF FalsyS(b.votedDifficulty) THEN UndefS ELSE b.votedDifficulty,
   rating |-> b.rating, status |-> "active"]

\* The validators of the Feedback schema (rating 0: no rating).
ValidFeedback(doc) ==
  /\ doc.type \in FeedbackTypes
  /\ doc.votedDifficulty = UndefS \/ doc.votedDifficulty \in Difficulties
  /\ doc.type = "difficulty_rating" => doc.votedDifficulty # UndefS
  /\ doc.rating = 0 \/ (doc.rating >= MinRating /\ doc.rating <= MaxRating)

\* The checks of submitFeedback before the document is built: the refusal, or Ok.
SubmitFeedbackChecks(u, b) ==
  IF b.questionId = 0 \/ FalsyS(b.type)
  THEN [code |-> 400, msg |-> "Question ID and feedback type are required"]
  ELSE IF ~Exists(b.questionId) \/ ~Truthy(questions[b.questionId], "isActive")
  THEN [code |-> 404, msg |-> "Question not found"]
  ELSE IF b.type = "difficulty_rating" /\ FalsyS(b.votedDifficulty)
  THEN [code |-> 400, msg |-> "Voted difficulty is required for difficulty rating"]
  ELSE IF b.type \in ReviewTypes
          /\ (b.rating = 0 \/ b.rating < MinRating \/ b.rating > MaxRating)
  THEN [code |-> 400, msg |-> "Rating between 1-5 is required for reviews"]
  ELSE IF ExistingFeedback(u, b.questionId, b.type)
  THEN [code |-> 400,
        msg |-> "You have already submitted this type of feedback for this question"]
  ELSE Ok

SubmitFeedback(u, b) ==
  /\ LET c == SubmitFeedbackChecks(u, b) IN
     IF c # Ok
     THEN /\ last' = Reply("submitFeedback", u, c.code, c.msg, {})
          /\ feedbacks' = feedbacks
     ELSE IF ~ValidFeedback(NewFeedback(u, b))
     THEN /\ last' = Reply("submitFeedback", u, 500, "Failed to submit feedback", {})
          /\ feedbacks' = feedbacks
     ELSE IF IndexHasKey(u, b.questionId, b.type)
     THEN /\ last' = Reply("submitFeedback", u, 400,
               "You have already submitted this type of feedback for this question", {})
          /\ feedbacks' = feedbacks
     ELSE /\ feedbacks' = Append(feedbacks, NewFeedback(u, b))
          /\ last' = Reply("submitFeedback", u, 201,
                           "Feedback submitted successfully", {})
  /\ UNCHANGED <<groups, members, questions, inflight, authVars, rateVars>>

\* deleteFeedback: a soft delete by the owner (the _id is the position).
DeleteFeedback(u, id) ==
  /\ IF id \notin 1..Len(feedbacks)
     THEN /\ last' = Reply("deleteFeedback", u, 404, "Feedback not found", {})
          /\ feedbacks' = feedbacks
     ELSE IF feedbacks[id].userId # u
     THEN /\ last' = Reply("deleteFeedback", u, 403,
                           "You can only delete your own feedback", {})
          /\ feedbacks' = feedbacks
     ELSE /\ feedbacks' = [feedbacks EXCEPT ![id].status = "deleted"]
          /\ last' = Reply("deleteFeedback", u, 200,
                           "Feedback deleted successfully", {})
  /\ UNCHANGED <<groups, members, questions, inflight, authVars, rateVars>>

(***************************************************************************)
(* Authentication middleware, with the clock, the login that issues a      *)
(* token and the password change of the user controller.                   *)
(***************************************************************************)
MsPerSecond == 1000
TickMs == 250
MaxClock == 1000
MaxTokens == 2

Tick ==
  /\ now < MaxClock
  /\ now' = now + TickMs
  /\ last' = Reply("tick", 0, 0, "", {})
  /\ UNCHANGED <<storeVars, inflight, pwChangedAt, userActive, tokens, rateVars>>

\* jwt.sign at login: iat is the time of issue in whole seconds.
LoginUser(u) ==
  /\ userActive[u]
  /\ Cardinality(tokens) < MaxTokens
  /\ tokens' = tokens \cup {[userId |-> u, iat |-> now \div MsPerSecond,
                             issuedAt |-> now, genuine |-> TRUE]}
  /\ last' = Reply("loginUser", u, 200, "", {})
  /\ UNCHANGED <<storeVars, inflight, now, pwChangedAt, userActive, rateVars>>

\* changePassword: passwordChangedAt becomes the time of the change.
ChangePassword(u) ==
  /\ userActive[u]
  /\ pwChangedAt' = [pwChangedAt EXCEPT ![u] = now]
  /\ last' = Reply("changePassword", u, 200, "", {})
  /\ UNCHANGED <<storeVars, inflight, now, userActive, tokens, rateVars>>

\* deleteUser: the account is deactivated.
DeactivateUser(u) ==
  /\ userActive[u]
  /\ userActive' = [userActive EXCEPT ![u] = FALSE]
  /\ last' = Reply("deleteUser", u, 200, "", {})
  /\ UNCHANGED <<storeVars, inflight, now, pwChangedAt, tokens, rateVars>>

\* decoded.iat < user.passwordChangedAt.getTime() / 1000, the division exact.
IssuedBeforeChange(iat, changedAt) == iat * MsPerSecond < changedAt

\* The verdict of authMiddleware on a token: next() is code 200.
AuthVerdict(tok) ==
  IF ~tok.genuine
  THEN [code |-> 401, msg |-> "Invalid token"]
  ELSE IF ~userActive[tok.userId]
  THEN [code |-> 401, msg |-> "User not found or inactive"]
  ELSE IF pwChangedAt[tok.userId] # NotSet
          /\ IssuedBeforeChange(tok.iat, pwChangedAt[tok.userId])
  THEN [code |-> 401, msg |-> "Password recently changed, please log in again"]
  ELSE [code |-> 200, msg |-> "next"]

AuthMiddleware(tok) ==
  /\ last' = Reply("authMiddleware", tok.userId, AuthVerdict(tok).code,
                   AuthVerdict(tok).msg, {})
  /\ UNCHANGED <<storeVars, inflight, authVars, rateVars>>

\* A token the server never signed.
Forged(u) == [userId |-> u, iat |-> 0, issuedAt |-> 0, genuine |-> FALSE]

(***************************************************************************)
(* Rate limiter: apiLimiter is mounted on /api, and once more on the two   *)
(* POST routes of the question router, behind authMiddleware.              *)
(***************************************************************************)
ApiMax == 100
MaxSent == 101

\* One pass of the request through apiLimiter: the counter after it.
Increment(h) == h + 1

\* The routes on which the request meets apiLimiter a second time.
LimitedRoutes == {"POST /api/questions/create", "POST /api/questions/:questionId/response"}
Routes == LimitedRoutes \cup {"GET /api/questions/:id"}

ApiRequest(route, authed) ==
  /\ sent < MaxSent
  /\ sent' = sent + 1
  /\ LET h1 == Increment(hits)
         h2 == IF route \in LimitedRoutes /\ authed THEN Increment(h1) ELSE h1 IN
     IF h1 > ApiMax
     THEN /\ hits' = h1
          /\ last' = Reply("apiLimiter", 0, 429,
                           "Too many requests, please try again later", {})
     ELSE /\ hits' = h2
          /\ last' = IF h2 > ApiMax
                     THEN Reply("apiLimiter", 0, 429,
                                "Too many requests, please try again later", {})
                     ELSE Reply("apiLimiter", 0, 200, "next", {})
  /\ UNCHANGED <<storeVars, inflight, authVars>>

\* The 15-minute window of the client ends: its counter starts again.
WindowReset ==
  /\ hits > 0
  /\ hits' = 0
  /\ sent' = 0
  /\ last' = Reply("windowReset", 0, 0, "", {})
  /\ UNCHANGED <<storeVars, inflight, authVars>>

(***************************************************************************)
(* The requests of the specifications.                                     *)
(***************************************************************************)
CreateBody(title, url, difficulty, category, platform, g) ==
  [NoBody EXCEPT !.title = title, !.sourceUrl = url, !.difficulty = difficulty,
                 !.category = category, !.platform = platform, !.groupId = g]

ResponseBody(status, rating, time, notes) ==
  [NoBody EXCEPT !.status = status, !.difficultyRating = rating,
                 !.timeToSolve = time, !.notes = notes]

UpdateBody(title, difficulty) ==
  [NoBody EXCEPT !.title = title, !.difficulty = difficulty]

\* The bodies of the main specification: complete createQuestion bodies, one
\* source URL padded and plain, and one body without a title.
CreateBodies ==
  {CreateBody(<<"a", "b">>, url, "Easy", <<"c">>, "Other", g) :
      url \in {<<"x">>, <<" ", "x">>}, g \in 1..MaxGroups}
  \cup {CreateBody(Undefined, <<"x">>, "Easy", <<"c">>, "Other", 1)}

ResponseBodies ==
  {ResponseBody("solved", "Easy", <<5>>, Undefined),
   ResponseBody(UndefS, "Easy", <<>>, Undefined)}

UpdateBodies == {UpdateBody(<<"B", "c">>, UndefS), UpdateBody(Undefined, "Bogus")}

Queries == {<<"a", "b">>, <<"B">>}

ReqCreateGroup == \E u \in Users, p \in BOOLEAN : CreateGroup(u, p)
ReqCreatePrivateGroup == \E u \in Users : CreateGroup(u, TRUE)
ReqJoinGroup == \E u \in Users, c \in 1..MaxGroups : JoinGroup(u, c)
ReqLeaveGroup == \E u \in Users, g \in 1..MaxGroups : LeaveGroup(u, g)
ReqRemoveMember == \E u \in Users, g \in 1..MaxGroups, t \in Users : RemoveMember(u, g, t)
ReqCreateQuestion == \E u \in Users, b \in CreateBodies : CreateQuestion(u, b)
ReqGetQuestionsByGroup == \E u \in Users, g \in 1..MaxGroups : GetQuestionsByGroup(u, g)
ReqGetQuestionById == \E u \in Users, id \in 1..MaxQuestions : GetQuestionById(u, id)
ReqUpdateQuestion ==
  \E u \in Users, id \in 1..MaxQuestions, b \in UpdateBodies : UpdateQuestion(u, id, b)
ReqDeleteQuestion == \E u \in Users, id \in 1..MaxQuestions : DeleteQuestion(u, id)
ReqAddSolution == \E u \in Users, id \in 1..MaxQuestions : AddSolution(u, id)
ReqGetSolutions == \E u \in Users, id \in 1..MaxQuestions : GetSolutions(u, id)
ReqSearchQuestions ==
  \E u \in Users, q \in Queries, g \in 0..MaxGroups : SearchQuestions(u, q, g)
ReqSubmitMemberResponse ==
  \E u \in Users, id \in 1..MaxQuestions, b \in ResponseBodies :
     SubmitMemberResponse(u, id, b)
ReqGetUserQuestionResponse ==
  \E u \in Users, id \in 1..MaxQuestions : GetUserQuestionResponse(u, id)
ReqGetQuestionMemberResponses ==
  \E u \in Users, id \in 1..MaxQuestions : GetQuestionMemberResponses(u, id)

\* Membership and the two handlers that write for members only.
NextMember ==
  \/ ReqCreatePrivateGroup
  \/ ReqJoinGroup
  \/ ReqLeaveGroup
  \/ ReqRemoveMember
  \/ ReqCreateQuestion
  \/ ReqSubmitMemberResponse

SpecMember == Init /\ [][NextMember]_vars

\* The poster's and the admin's handlers.
NextOwner ==
  \/ ReqCreatePrivateGroup
  \/ ReqJoinGroup
  \/ ReqLeaveGroup
  \/ ReqRemoveMember
  \/ ReqCreateQuestion
  \/ ReqUpdateQuestion
  \/ ReqDeleteQuestion

SpecOwner == Init /\ [][NextOwner]_vars

\* Deletion and the handlers that must not see a deleted question.
NextDelete ==
  \/ ReqCreatePrivateGroup
  \/ ReqCreateQuestion
  \/ ReqDeleteQuestion
  \/ ReqUpdateQuestion
  \/ ReqGetQuestionById
  \/ ReqSubmitMemberResponse
  \/ ReqGetQuestionsByGroup
  \/ ReqSearchQuestions

SpecDelete == Init /\ [][NextDelete]_vars

\* The handlers that return questions, solutions and responses.
NextRead ==
  \/ ReqCreateGroup
  \/ ReqJoinGroup
  \/ ReqLeaveGroup
  \/ ReqCreateQuestion
  \/ ReqAddSolution
  \/ ReqSubmitMemberResponse
  \/ ReqGetQuestionsByGroup
  \/ ReqGetQuestionById
  \/ ReqSearchQuestions
  \/ ReqGetSolutions
  \/ ReqGetUserQuestionResponse
  \/ ReqGetQuestionMemberResponses

SpecRead == Init /\ [][NextRead]_vars

FeedbackBody(qid, type, voted, rating) ==
  [NoBody EXCEPT !.questionId = qid, !.type = type, !.votedDifficulty = voted,
                 !.rating = rating]

FeedbackBodies ==
  {FeedbackBody(qid, "difficulty_rating", v, 0) :
      qid \in 0..MaxQuestions, v \in {UndefS, "Easy"}}
  \cup {FeedbackBody(qid, "question_review", UndefS, r) :
      qid \in 1..MaxQuestions, r \in {0, 3, 6}}
  \cup {FeedbackBody(1, "general", UndefS, 0)}

ReqSubmitFeedback == \E u \in Users, b \in FeedbackBodies : SubmitFeedback(u, b)

MaxFeedbacks == 2
ReqDeleteFeedback == \E u \in Users, id \in 1..MaxFeedbacks : DeleteFeedback(u, id)

NextFeedback ==
  \/ ReqCreatePrivateGroup
  \/ ReqJoinGroup
  \/ ReqCreateQuestion
  \/ ReqDeleteQuestion
  \/ ReqSubmitFeedback
  \/ ReqDeleteFeedback

SpecFeedback == Init /\ [][NextFeedback]_vars

ReqLoginUser == \E u \in Users : LoginUser(u)
ReqChangePassword == \E u \in Users : ChangePassword(u)
ReqDeactivateUser == \E u \in Users : DeactivateUser(u)
ReqAuthMiddleware == \E tok \in tokens \cup {Forged(u) : u \in Users} : AuthMiddleware(tok)

NextAuth ==
  \/ Tick
  \/ ReqLoginUser
  \/ ReqChangePassword
  \/ ReqDeactivateUser
  \/ ReqAuthMiddleware

SpecAuth == Init /\ [][NextAuth]_vars

ReqApiRequest == \E route \in Routes, authed \in BOOLEAN : ApiRequest(route, authed)

NextRate ==
  \/ ReqApiRequest
  \/ WindowReset

SpecRate == Init /\ [][NextRate]_vars

\* createQuestion bodies with each required field there, missing or blank, and
\* the platform there, missing or outside the enum.
RichCreateBodies ==
  {CreateBody(t, url, d, c, pf, g) :
      t \in {<<"a">>, Undefined, <<" ">>}, url \in {<<"x">>, <<" ", "x">>, <<>>},
      d \in {"Easy", UndefS, "Bogus"}, c \in {<<"c">>, Undefined},
      pf \in {"Other", UndefS, "Bogus"}, g \in 0..MaxGroups}

ReqCreateQuestionRich == \E u \in Users, b \in RichCreateBodies : CreateQuestion(u, b)

NextCreate ==
  \/ ReqCreatePrivateGroup
  \/ ReqJoinGroup
  \/ ReqLeaveGroup
  \/ ReqCreateQuestionRich
  \/ ReqDeleteQuestion

SpecCreate == Init /\ [][NextCreate]_vars

\* submitMemberResponse bodies: the time absent, 0 and positive, the notes
\* absent and padded, the status valid, missing and outside the enum.
RichResponseBodies ==
  {ResponseBody(st, r, t, n) :
      st \in {"solved", UndefS, "bogus"}, r \in {"Easy", "Hard"},
      t \in {<<>>, <<0>>, <<5>>}, n \in {Undefined, <<" ", "n">>}}

ReqSubmitMemberResponseRich ==
  \E u \in Users, id \in 1..MaxQuestions, b \in RichResponseBodies :
     SubmitMemberResponse(u, id, b)

NextResp ==
  \/ ReqCreatePrivateGroup
  \/ ReqJoinGroup
  \/ ReqCreateQuestion
  \/ ReqSubmitMemberResponseRich

SpecResp == Init /\ [][NextResp]_vars

MaxInflight == 2

ReqCreateQuestionCheck ==
  \E u \in Users, b \in CreateBodies :
     Cardinality(inflight) < MaxInflight /\ CreateQuestionCheck(u, b)
ReqCreateQuestionSave == \E r \in inflight : CreateQuestionSave(r)

\* Requests in progress at the same time: createQuestion in its two steps.
NextConc ==
  \/ ReqCreatePrivateGroup
  \/ ReqJoinGroup
  \/ ReqCreateQuestionCheck
  \/ ReqCreateQuestionSave
  \/ ReqDeleteQuestion

SpecConc == Init /\ [][NextConc]_vars

\* The cap on a user's groups: one user's createGroup requests, in two steps,
\* some of them in progress together.
CapUsers == {1}

InitCap ==
  /\ groups = <<>>
  /\ members = [p \in Users \X (1..MaxCapGroups) |-> NoMember]
  /\ questions = <<>>
  /\ feedbacks = <<>>
  /\ last = NoResponse
  /\ inflight = {}
  /\ InitAuth
  /\ InitRate

ReqCreateGroupCheck ==
  \E u \in CapUsers, p \in BOOLEAN :
     Cardinality(inflight) < MaxInflight /\ CreateGroupCheck(u, p)
ReqCreateGroupSave == \E r \in inflight : CreateGroupSave(r)

NextCap ==
  \/ ReqCreateGroupCheck
  \/ ReqCreateGroupSave

SpecCap == InitCap /\ [][NextCap]_vars

\* The group routes: details, update, invite codes and their expiry.
MaxCodes == 2
NameBodies == {Undefined, <<"n", "e", "w">>, <<"n">>}
SettingsBodies == {UndefS, "false", "true"}
ExpiryHours == {0, 1}

ReqGetGroupDetails == \E u \in Users, g \in 1..MaxGroups : GetGroupDetails(u, g)
ReqUpdateGroup ==
  \E u \in Users, g \in 1..MaxGroups, n \in NameBodies, a \in SettingsBodies :
     UpdateGroup(u, g, n, a)
ReqGenerateInviteCode ==
  \E u \in Users, g \in 1..MaxGroups, h \in ExpiryHours, c \in 1..MaxCodes :
     GenerateInviteCode(u, g, h, c)
ReqJoinGroupByCode == \E u \in Users, c \in 1..MaxCodes : JoinGroup(u, c)

NextAccess ==
  \/ ReqCreateGroup
  \/ ReqJoinGroupByCode
  \/ ReqLeaveGroup
  \/ ReqRemoveMember
  \/ ReqGetGroupDetails
  \/ ReqUpdateGroup
  \/ ReqGenerateInviteCode
  \/ HourPasses

SpecAccess == Init /\ [][NextAccess]_vars

\* The group routes that change memberships.
NextLeave ==
  \/ ReqCreateGroup
  \/ ReqJoinGroup
  \/ ReqLeaveGroup
  \/ ReqRemoveMember

SpecLeave == Init /\ [][NextLeave]_vars

(***************************************************************************)
(* The statistics of getGroupMembers: the stores are drawn from those the  *)
(* routes can leave behind, one private group of user 1 with members who   *)
(* joined at its creation or an hour later and questions its members       *)
(* answered.                                                               *)
(***************************************************************************)
MaxStatUsers == 3
MaxStatQuestions == 2
MaxExtra == 2
StatUsers == 1..MaxStatUsers

\* The response a member submitted with the given status, <<>> for none.
StatResponses(v, status) ==
  IF status = "none" THEN <<>>
  ELSE <<ResponseData(v, ResponseBody(status, "Easy", <<>>, Undefined))>>

\* The i-th question of the group, posted by user 1 and answered by users 1
\* and 2 with the statuses s1 and s2.
StatQuestion(i, s1, s2) ==
  [NewQuestion(1, CreateBody(<<"t">>, [k \in 1..i |-> "x"], "Easy", <<"c">>,
                             "LeetCode", 1))
     EXCEPT !.memberResponses = StatResponses(1, s1) \o StatResponses(2, s2)]

\* Up to MaxStatQuestions questions with every choice of responses, and the
\* long histories of user 1: StreakLimit questions or more, all solved but
\* at most one.
StatStores ==
  UNION {{[i \in 1..n |-> StatQuestion(i, c[i][1], c[i][2])] :
            c \in [1..n -> {"none", "solved", "attempted"}
                           \X {"none", "solved", "stuck"}]} :
         n \in 0..MaxStatQuestions}
  \cup {[i \in 1..n |-> StatQuestion(i, IF i = p THEN "attempted" ELSE "solved",
                                     "none")] :
          n \in StreakLimit..(StreakLimit + MaxExtra),
          p \in 0..(StreakLimit + MaxExtra)}

InitStats ==
  /\ now = MsPerHour
  /\ groups = <<NewGroup(1, TRUE, 1)>>
  /\ \E m2 \in {[role |-> "member", status |-> "active", bannedBy |-> 0,
                 joinedAt |-> 0],
                [role |-> "member", status |-> "active", bannedBy |-> 0,
                 joinedAt |-> MsPerHour],
                [role |-> "member", status |-> "banned", bannedBy |-> 1,
                 joinedAt |-> 0]},
        m3 \in {NoMember,
                [role |-> "member", status |-> "active", bannedBy |-> 0,
                 joinedAt |-> MsPerHour]} :
       members = [p \in StatUsers \X (1..MaxGroups) |->
                    IF p[2] # 1 \/ p[1] > 3 THEN NoMember
                    ELSE IF p[1] = 1 THEN [AdminMember EXCEPT !.joinedAt = 0]
                    ELSE IF p[1] = 2 THEN m2 ELSE m3]
  /\ questions \in StatStores
  /\ feedbacks = <<>>
  /\ last = NoResponse
  /\ inflight = {}
  /\ pwChangedAt = [u \in Users |-> NotSet]
  /\ userActive = [u \in Users |-> TRUE]
  /\ tokens = {}
  /\ InitRate

ReqGetGroupMembers ==
  \E u \in StatUsers, g \in 1..MaxGroups :
     \E ms \in MembersByJoinedAt(g) : GetGroupMembers(u, g, ms)
\* The poster deletes one of the oldest questions.
ReqDeleteOwnQuestion == \E id \in 1..MaxStatQuestions : DeleteQuestion(1, id)

NextStats ==
  \/ ReqGetGroupMembers
  \/ ReqDeleteOwnQuestion

SpecStats == InitStats /\ [][NextStats]_vars

(***************************************************************************)
(* The properties.                                                         *)
(***************************************************************************)
\* u has a GroupMember document of group g whose status is 'active'.
IsActiveMember(u, g) == g \in GroupIds /\ members[<<u, g>>].status = "active"

\* C1: submitFeedback for an existing question with status 'active', with a
\* valid type and the fields the type requires, by a user who has no feedback
\* of that type on the question, stores a new feedback with status 'active'
\* and answers 201.
C1_SubmitFeedbackStores ==
  [][\A u \in Users, b \in FeedbackBodies :
       (/\ SubmitFeedback(u, b)
        /\ b.questionId \in QuestionIds
        /\ questions[b.questionId].status = "active"
        /\ b.type \in FeedbackTypes
        /\ b.type = "difficulty_rating" => b.votedDifficulty \in Difficulties
        /\ b.type \in ReviewTypes => b.rating \in MinRating..MaxRating
        /\ ~IndexHasKey(u, b.questionId, b.type))
       => /\ last'.code = 201
          /\ Len(feedbacks') = Len(feedbacks) + 1
          /\ feedbacks'[Len(feedbacks')].status = "active"]_vars

ReadOps == {"getQuestionsByGroup", "getQuestionById", "searchQuestions",
            "getSolutions", "getUserQuestionResponse", "getQuestionMemberResponses"}

\* C2: no question endpoint answers a user who has no active membership in a
\* private group with content of a question of that group.
C2_NoPrivateDataToOutsiders ==
  last.op \in ReadOps =>
    \A id \in last.data :
       ~(/\ groups[questions[id].groupId].isPrivate
         /\ ~IsActiveMember(last.user, questions[id].groupId))

\* C3: createQuestion and submitMemberResponse by a user without an active
\* membership in the target group change nothing and are refused: with 403
\* when the body carries the required fields and the group, or the active
\* question, exists (400 and 404 come before the membership check).
C3_OnlyActiveMembersWrite ==
  [][/\ \A u \in Users, b \in CreateBodies :
          (CreateQuestion(u, b) /\ ~IsActiveMember(u, b.groupId))
          => /\ questions' = questions
             /\ last'.code \in {400, 403, 404}
             /\ (~Falsy(b.title) /\ b.groupId \in GroupIds) => last'.code = 403
     /\ \A u \in Users, id \in 1..MaxQuestions, b \in ResponseBodies :
          (/\ SubmitMemberResponse(u, id, b)
           /\ id \in QuestionIds
           /\ ~IsActiveMember(u, questions[id].groupId))
          => /\ questions' = questions
             /\ last'.code \in {400, 403, 404}
             /\ (~FalsyS(b.status) /\ questions[id].status = "active")
                  => last'.code = 403]_vars

\* A member who was removed from the group has just been refused a response.
C3_Witness ==
  /\ last.op = "submitMemberResponse"
  /\ last.code = 403
  /\ \E g \in GroupIds : members[<<last.user, g>>].status = "banned"

\* C4: a handler behind authMiddleware runs only for a genuine token of an
\* active user; a genuine token of an active user issued before the user's
\* latest password change is refused as such, and a token is refused as such
\* only if it was not issued after that change.
C4_RefusedExactlyWhenIssuedBeforeChange ==
  [][\A tok \in tokens \cup {Forged(u) : u \in Users} :
       AuthMiddleware(tok)
       => LET refused ==
                last'.msg = "Password recently changed, please log in again"
              changedAt == pwChangedAt[tok.userId] IN
          /\ last'.code = 200 => (tok.genuine /\ userActive[tok.userId])
          /\ (/\ tok.genuine
              /\ userActive[tok.userId]
              /\ changedAt # NotSet
              /\ tok.issuedAt < changedAt) => refused
          /\ refused => (changedAt # NotSet /\ tok.issuedAt <= changedAt)]_vars

\* C5: the general API rate limiter refuses a client only after the client
\* has sent 100 requests in the window, whatever routes they address.
C5_NotRefusedBelowMax ==
  (last.op = "apiLimiter" /\ last.code = 429) => sent > ApiMax

\* The notes a stored response carries for the notes submitted.
NotesCarried(n) == IF n = Undefined THEN <<>> ELSE Trim(n)

\* C6: after an accepted submitMemberResponse the question holds exactly one
\* response of the user, with the status, difficulty rating, time and notes
\* submitted; the first one answers 'Response submitted successfully', a later
\* one 'Response updated successfully' and leaves the number of responses.
C6_OneResponseCarryingTheSubmission ==
  [][\A u \in Users, id \in 1..MaxQuestions, b \in RichResponseBodies :
       (SubmitMemberResponse(u, id, b) /\ last'.code = 200)
       => LET old == questions[id].memberResponses
              new == questions'[id].memberResponses
              mine == {i \in 1..Len(new) : new[i].userId = u}
              had == \E i \in 1..Len(old) : old[i].userId = u IN
          /\ Cardinality(mine) = 1
          /\ \A i \in mine :
                /\ new[i].status = b.status
                /\ new[i].difficultyRating = b.difficultyRating
                /\ new[i].timeToSolve = b.timeToSolve
                /\ new[i].notes = NotesCarried(b.notes)
          /\ had => (last'.msg = "Response updated successfully"
                     /\ Len(new) = Len(old))
          /\ ~had => (last'.msg = "Response submitted successfully"
                      /\ Len(new) = Len(old) + 1)]_vars

\* C7: no two questions with status 'active' of one group have the same
\* stored sourceUrl.
C7_NoDuplicateActiveUrl ==
  \A i, j \in QuestionIds :
     (/\ i # j
      /\ questions[i].status = "active"
      /\ questions[j].status = "active"
      /\ questions[i].groupId = questions[j].groupId)
     => questions[i].sourceUrl # questions[j].sourceUrl

\* C8: a createQuestion body without one of title, source URL, difficulty,
\* category and group ID is answered 400 and stores nothing; a body with the
\* five (the difficulty Easy, Medium or Hard), from an active member of an
\* existing group, its source URL not active in the group, is stored and
\* answered 201 whatever its other fields.
C8_FiveFieldsSuffice ==
  [][\A u \in Users, b \in RichCreateBodies :
       CreateQuestion(u, b)
       => IF Falsy(b.title) \/ Falsy(b.sourceUrl) \/ FalsyS(b.difficulty)
               \/ Falsy(b.category) \/ b.groupId = 0
          THEN last'.code = 400 /\ questions' = questions
          ELSE (/\ b.difficulty \in Difficulties
                /\ IsActiveMember(u, b.groupId)
                /\ ~\E i \in QuestionIds :
                      /\ questions[i].groupId = b.groupId
                      /\ questions[i].status = "active"
                      /\ questions[i].sourceUrl = Trim(b.sourceUrl))
               => /\ last'.code = 201
                  /\ Len(questions') = Len(questions) + 1]_vars

\* C9: deleteQuestion keeps the document, with status 'deleted', for good;
\* for a deleted question getQuestionById, updateQuestion and deleteQuestion
\* answer 404, submitMemberResponse answers 404 (400 when the body lacks the
\* status or the rating), none of them changes it, and the group list and the
\* search never return it.
C9_SoftDeleteHides ==
  [][/\ \A id \in QuestionIds :
          questions[id].status = "deleted"
          => /\ id \in 1..Len(questions')
             /\ questions'[id] = questions[id]
             /\ \A u \in Users :
                   /\ GetQuestionById(u, id) => last'.code = 404
                   /\ DeleteQuestion(u, id) => last'.code = 404
                   /\ \A b \in UpdateBodies :
                         UpdateQuestion(u, id, b) => last'.code = 404
                   /\ \A b \in ResponseBodies :
                         SubmitMemberResponse(u, id, b)
                         => last'.code = IF FalsyS(b.status) THEN 400 ELSE 404
     /\ \A u \in Users, id \in QuestionIds :
          (DeleteQuestion(u, id) /\ last'.code = 200)
          => (Len(questions') = Len(questions)
              /\ questions'[id].status = "deleted")
     /\ last'.op \in {"getQuestionsByGroup", "searchQuestions"}
          => \A id \in last'.data : questions'[id].status = "active"]_vars

\* A response has just been refused with 404 because its question is deleted.
C9_Witness ==
  /\ last.op = "submitMemberResponse"
  /\ last.code = 404
  /\ \E id \in QuestionIds : questions[id].status = "deleted"

\* u posted question id, or is an active admin of its group.
PosterOrAdmin(u, id) ==
  \/ questions[id].postedBy = u
  \/ /\ IsActiveMember(u, questions[id].groupId)
     /\ members[<<u, questions[id].groupId>>].role = "admin"

\* C10: updateQuestion and deleteQuestion by a requester who neither posted
\* the question nor is an active admin of its group leave the question as it
\* is and answer 403 'Permission denied' (404 when the question is deleted).
C10_OnlyPosterOrAdminChanges ==
  [][\A u \in Users, id \in QuestionIds :
       ~PosterOrAdmin(u, id)
       => /\ \A b \in UpdateBodies :
                UpdateQuestion(u, id, b)
                => /\ questions' = questions
                   /\ IF questions[id].status = "active"
                      THEN last'.code = 403 /\ last'.msg = "Permission denied"
                      ELSE last'.code = 404
          /\ DeleteQuestion(u, id)
                => /\ questions' = questions
                   /\ IF questions[id].status = "active"
                      THEN last'.code = 403 /\ last'.msg = "Permission denied"
                      ELSE last'.code = 404]_vars

\* A member who is neither the poster nor an admin has just been refused.
C10_Witness ==
  /\ last.op \in {"updateQuestion", "deleteQuestion"}
  /\ last.code = 403
  /\ \E g \in GroupIds :
        IsActiveMember(last.user, g) /\ members[<<last.user, g>>].role = "member"

\* C11: no user is the admin of more than 10 active groups, also when
\* createGroup requests of one user are in progress together.
C11_AtMostTenGroups ==
  \A u \in Users :
     Cardinality({g \in GroupIds : groups[g].adminId = u /\ groups[g].isActive})
       <= MaxAdminGroups

\* C12: a user whose membership in a group is 'left' or 'banned' is refused
\* the details of the group with 403 when it is private (and active), and is
\* refused with 403 when updating the group or replacing its invite code,
\* which leaves the group as it is.
C12_FormerMembersAreOutsiders ==
  [][\A u \in Users, g \in GroupIds :
       members[<<u, g>>].status \in {"left", "banned"}
       => /\ (GetGroupDetails(u, g) /\ groups[g].isPrivate /\ groups[g].isActive)
               => last'.code = 403
          /\ \A n \in NameBodies, a \in SettingsBodies :
                UpdateGroup(u, g, n, a)
                => (last'.code = 403 /\ groups' = groups)
          /\ \A h \in ExpiryHours, c \in 1..MaxCodes :
                GenerateInviteCode(u, g, h, c)
                => (last'.code = 403 /\ groups' = groups)]_vars

\* C13: joinGroup with the invite code of a group whose inviteCodeExpiry
\* lies in the past is refused and changes no membership.
C13_ExpiredCodeRefused ==
  [][\A u \in Users, c \in 1..MaxCodes :
       (/\ JoinGroup(u, c)
        /\ \E g \in GroupIds :
              /\ groups[g].inviteCode = c
              /\ groups[g].isActive
              /\ groups[g].inviteCodeExpiry # NotSet
              /\ groups[g].inviteCodeExpiry < now)
       => (last'.code # 200 /\ members' = members)]_vars

\* C14: leaveGroup by the member with role 'admin' answers 400 and changes
\* nothing while another member of the group is active; otherwise it sets
\* the group's isActive to false and the admin's status to 'left', and
\* nothing else.
C14_AdminLeavesOnlyWhenAlone ==
  [][\A u \in Users, g \in GroupIds :
       (LeaveGroup(u, g) /\ members[<<u, g>>].role = "admin")
       => IF \E v \in Users \ {u} : members[<<v, g>>].status = "active"
          THEN /\ last'.code = 400
               /\ groups' = groups
               /\ members' = members
          ELSE /\ last'.code = 200
               /\ groups' = [groups EXCEPT ![g].isActive = FALSE]
               /\ members' = [members EXCEPT ![<<u, g>>].status = "left"]]_vars

\* An admin has just been refused leaving a group that has another active member.
C14_Witness ==
  /\ last.op = "leaveGroup"
  /\ last.code = 400
  /\ \E g \in GroupIds :
        /\ members[<<last.user, g>>] = AdminMember
        /\ groups[g].isActive
        /\ \E v \in Users \ {last.user} : members[<<v, g>>].status = "active"

\* C15: removeMember changes a membership only when the requester's
\* membership in the group has role 'admin' and the target has a membership
\* whose role is not 'admin': then the target's status becomes 'banned' with
\* bannedBy the requester and the answer is 200; otherwise the answer is 403,
\* 404 or 400 and no membership changes.
C15_OnlyAdminRemovesNonAdmins ==
  [][\A u \in Users, g \in 1..MaxGroups, t \in Users :
       RemoveMember(u, g, t)
       => IF /\ g \in GroupIds
             /\ members[<<u, g>>].role = "admin"
             /\ members[<<t, g>>].role \notin {"none", "admin"}
          THEN /\ last'.code = 200
               /\ members' = [members EXCEPT ![<<t, g>>].status = "banned",
                                             ![<<t, g>>].bannedBy = u]
          ELSE /\ last'.code \in {400, 403, 404}
               /\ members' = members]_vars

\* An admin has just removed a member, who is now banned by that admin.
C15_Witness ==
  /\ last.op = "removeMember"
  /\ last.code = 200
  /\ \E g \in GroupIds, t \in Users :
        /\ members[<<t, g>>].status = "banned"
        /\ members[<<t, g>>].bannedBy = last.user
        /\ members[<<last.user, g>>].role = "admin"

\* C16: there is at most one feedback document for any (user, question,
\* type), whatever its status; a valid submitFeedback on an active question
\* is answered 201, or 400 when the user already has a document of that type
\* on the question, and then it stores nothing.
C16_OneFeedbackPerKey ==
  [][/\ \A i, j \in 1..Len(feedbacks') :
          (/\ feedbacks'[i].userId = feedbacks'[j].userId
           /\ feedbacks'[i].questionId = feedbacks'[j].questionId
           /\ feedbacks'[i].type = feedbacks'[j].type) => i = j
     /\ \A u \in Users, b \in FeedbackBodies :
          (/\ SubmitFeedback(u, b)
           /\ b.questionId \in QuestionIds
           /\ questions[b.questionId].status = "active"
           /\ b.type \in FeedbackTypes
           /\ b.type = "difficulty_rating" => b.votedDifficulty \in Difficulties
           /\ b.type \in ReviewTypes => b.rating \in MinRating..MaxRating)
          => IF \E i \in 1..Len(feedbacks) :
                   /\ feedbacks[i].userId = u
                   /\ feedbacks[i].questionId = b.questionId
                   /\ feedbacks[i].type = b.type
             THEN last'.code = 400 /\ feedbacks' = feedbacks
             ELSE last'.code = 201]_vars

\* C17: the ranks of a getGroupMembers answer are a permutation of 1..n over
\* the n active members of the group it returns, and a member with strictly
\* more problemsSolved has a strictly smaller rank than a member with fewer.
C17_RanksArePermutation ==
  (last.op = "getGroupMembers" /\ last.code = 200) =>
     LET n == Cardinality(last.data) IN
     /\ \A r \in last.data :
           {s.userId : s \in last.data} =
             {v \in StatUsers : IsActiveMember(v, r.groupId)}
     /\ Cardinality({r.userId : r \in last.data}) = n
     /\ {r.rank : r \in last.data} = 1..n
     /\ \A a, b \in last.data :
           a.problemsSolved > b.problemsSolved => a.rank < b.rank

\* An answer that ranks three members with three different counts, the one
\* who joined last first.
C17_Witness ==
  /\ last.op = "getGroupMembers" /\ last.code = 200
  /\ Cardinality({r.problemsSolved : r \in last.data}) = 3
  /\ \E a, b \in last.data :
        /\ a.rank = 1 /\ b.rank > 1
        /\ members[<<a.userId, a.groupId>>].joinedAt
             > members[<<b.userId, b.groupId>>].joinedAt

\* The active questions of group g that v answered, and whether v's answer to
\* question id is 'solved'.
AnsweredActive(v, g) ==
  {id \in QuestionIds :
     /\ questions[id].groupId = g /\ questions[id].status = "active"
     /\ \E i \in DOMAIN questions[id].memberResponses :
           questions[id].memberResponses[i].userId = v}
AnsweredSolved(v, id) ==
  \A i \in DOMAIN questions[id].memberResponses :
     questions[id].memberResponses[i].userId = v
       => questions[id].memberResponses[i].status = "solved"

\* The head run: of the 20 newest questions v answered, those that v solved
\* together with every newer one of them.
HeadRun(v, g) ==
  LET newest == {id \in AnsweredActive(v, g) :
                   Cardinality({j \in AnsweredActive(v, g) : j > id}) < 20} IN
  {id \in newest : \A j \in newest : j >= id => AnsweredSolved(v, j)}

\* C18: the currentStreak that getGroupMembers reports for a member is the
\* length of the unbroken run of 'solved' answers at the head of the member's
\* answered active questions of the group, the newest first and at most 20 of
\* them; it exceeds neither the member's problemsSolved nor 20.
C18_StreakIsHeadRun ==
  (last.op = "getGroupMembers" /\ last.code = 200) =>
     \A r \in last.data :
        /\ r.currentStreak = Cardinality(HeadRun(r.userId, r.groupId))
        /\ r.currentStreak <= r.problemsSolved
        /\ r.currentStreak <= 20

\* An answer for a member with more than 20 answered questions whose run an
\* 'attempted' answer breaks, solved questions behind it.
C18_Witness ==
  /\ last.op = "getGroupMembers" /\ last.code = 200
  /\ \E r \in last.data :
        /\ Cardinality(AnsweredActive(r.userId, r.groupId)) > 20
        /\ r.currentStreak >= 1
        /\ r.currentStreak < 20
        /\ r.currentStreak < r.problemsSolved

====
